---- MODULE Spec2Model ----
(***************************************************************************)
(* PrettyWriter (src/src/tm_json_writer.h): a streaming JSON writer that   *)
(* interleaves commas, colons, newlines and indentation with the tokens    *)
(* written by the base Writer.  The sink os_ is modelled as the sequence   *)
(* of characters Put by this class and of opaque tokens written by the     *)
(* base encoder.  RAPIDJSON_ASSERT is modelled as an active assertion: a   *)
(* failing assertion stops the writer (status = "failed").                 *)
(***************************************************************************)
EXTENDS Naturals, Sequences, FiniteSets, TLC

\* ---------------------------------------------------------------- bounds
MaxCalls == 4          \* calls made on the writer per behaviour
MaxDepth == 3          \* open containers
MaxCount == 2          \* largest indentCharCount passed to SetIndent

\* ------------------------------------------------------------ characters
NL  == "\n"
SP  == " "
TAB == "\t"
NUL == "NUL"           \* the terminator of a C string, read at index length
Garbage == {"G1", "G2"} \* a byte read past the terminator (undefined behaviour)

\* indentation strings handed to SetIndent
Units == { <<>>, <<SP, SP>>, <<TAB, SP>> }

\* the precision of a writer on which SetDoublePrecision was never called
DefaultDoublePrecision == 6
\* the precisions handed to SetDoublePrecision() and Double(d, precision)
Precisions == {3, DefaultDoublePrecision}

\* the double values handed to Double(): classes of IEEE-754 values
Doubles == {"nan", "pinf", "ninf", "zero", "pos", "neg"}

VARIABLES
    os,               \* Base::os_: what has been written to the sink
    flushCount,       \* number of os_.Flush() calls
    flushed,          \* what the sink held at the last os_.Flush()
    level_stack_,     \* Base::level_stack_: one Level per open container
    indentation_,     \* const char* indentation_
    indentCharCount_, \* unsigned indentCharCount_
    status,           \* "ok", or "failed" once a RAPIDJSON_ASSERT has failed
    op,               \* the last call made on the writer
    doc,              \* history: the events of the emission calls made so far
    nset,             \* history: number of SetIndent calls made so far
    doublePrecision,  \* the precision Base::Get/SetDoublePrecision hold
    usedPrecision,    \* history: the precision of the last Base::WriteDouble
    nprec             \* history: number of SetDoublePrecision calls so far

vars == <<os, flushCount, flushed, level_stack_, indentation_, indentCharCount_,
          status, op, doc, nset, doublePrecision, usedPrecision, nprec>>

\* the variables of the base writer's double precision
precvars == <<doublePrecision, usedPrecision, nprec>>

\* ------------------------------------------------------- double arithmetic
\* d != d
NeSelf(d) == d = "nan"
\* d / d
DivSelf(d) == IF d \in {"nan", "pinf", "ninf", "zero"} THEN "nan" ELSE "pos"
\* d > 0
Gt0(d) == d \in {"pinf", "pos"}
\* d < 0
Lt0(d) == d \in {"ninf", "neg"}

\* a call on the writer: the method, its argument, and the precision
\* argument (0 when the method takes none)
Op(name_, arg_, prec_) == [name |-> name_, arg |-> arg_, prec |-> prec_]

\* ------------------------------------------------------------ level stack
\* mutant: a new level that already counts one value
Level_CountOne(inArray_) == [inArray |-> inArray_, valueCount |-> 1]

Level(inArray_) == [inArray |-> inArray_, valueCount |-> 0]
Top(st) == st[Len(st)]
Pop(st) == SubSeq(st, 1, Len(st) - 1)
Push(st, l) == Append(st, l)

\* --------------------------------------------------------------- the sink
Put(o, c) == Append(o, c)

RECURSIVE Repeat(_, _)
Repeat(s, n) == IF n = 0 THEN <<>> ELSE s \o Repeat(s, n - 1)

\* indentation_[i], i counted from 0
IndentAt(i, g) ==
    IF i < Len(indentation_) THEN indentation_[i + 1]
    ELSE IF i = Len(indentation_) THEN NUL
    ELSE g

\* mutant: the whole indentation string written indentCharCount_ times
IndentLevel_WholeUnit(g) == Repeat(indentation_, indentCharCount_)

\* the inner loop of WriteIndent: for (i = 0; i < indentCharCount_; i++)
IndentLevel(g) == [i \in 1..indentCharCount_ |-> IndentAt(i - 1, g)]

\* mutant: one level more than the stack holds
WriteIndent_OneMore(o, st, g) == o \o Repeat(IndentLevel(g), Len(st) + 1)

\* WriteIndent with the level stack st
WriteIndent(o, st, g) == o \o Repeat(IndentLevel(g), Len(st))

\* mutant: the newline written whatever indentCharCount_ is
Newline_Always(o) == Put(o, NL)

\* if (indentCharCount_ > 0) os_.Put('\n')
Newline(o) == IF indentCharCount_ > 0 THEN Put(o, NL) ELSE o

\* mutant: the newline of the first element left out
ArraySep_NoFirstNewline(o, level) ==
    IF level.valueCount > 0
    THEN Newline(Put(o, ","))
    ELSE o

\* mutant: the comparison valueCount > 0 turned into valueCount >= 0
ArraySep_CommaFirst(o, level) ==
    IF level.valueCount >= 0
    THEN Newline(Put(o, ","))
    ELSE Newline(o)

\* PrettyPrefix, top level is an array: the comma and the newline
ArraySep(o, level) ==
    IF level.valueCount > 0
    THEN Newline(Put(o, ","))
    ELSE Newline(o)

\* mutant: the parity test reversed, the colon before a key
ObjectSep_ParityReversed(o, level) ==
    IF level.valueCount > 0
    THEN IF level.valueCount % 2 = 1
         THEN Newline(Put(o, ","))
         ELSE IF indentCharCount_ > 0
              THEN Put(Put(o, ":"), SP)
              ELSE Put(o, ":")
    ELSE Newline(o)

\* mutant: a newline after the colon where the space belongs
ObjectSep_ColonNewline(o, level) ==
    IF level.valueCount > 0
    THEN IF level.valueCount % 2 = 0
         THEN Newline(Put(o, ","))
         ELSE Newline(Put(o, ":"))
    ELSE Newline(o)

\* mutant: the space after the colon written whatever indentCharCount_ is
ObjectSep_ColonSpace(o, level) ==
    IF level.valueCount > 0
    THEN IF level.valueCount % 2 = 0
         THEN Newline(Put(o, ","))
         ELSE Put(Put(o, ":"), SP)
    ELSE Newline(o)

\* PrettyPrefix, top level is an object: the comma, colon, space and newline
ObjectSep(o, level) ==
    IF level.valueCount > 0
    THEN IF level.valueCount % 2 = 0
         THEN Newline(Put(o, ","))
         ELSE IF indentCharCount_ > 0
              THEN Put(Put(o, ":"), SP)
              ELSE Put(o, ":")
    ELSE Newline(o)

\* the assertion of PrettyPrefix: in an object, an even child is a name
NameAssert(level, type) ==
    (~level.inArray /\ level.valueCount % 2 = 0) => type = "kStringType"

\* mutant: the assertion that is commented out at line 172 enabled
PrettyPrefix_RootAssert(o, st, type, g) ==
    IF Len(st) # 0
    THEN LET level == Top(st)
             o1 == IF level.inArray
                   THEN WriteIndent(ArraySep(o, level), st, g)
                   ELSE IF level.valueCount % 2 = 0
                        THEN WriteIndent(ObjectSep(o, level), st, g)
                        ELSE ObjectSep(o, level)
         IN  IF NameAssert(level, type)
             THEN [os |-> o1, ok |-> TRUE,
                   stack |-> [st EXCEPT ![Len(st)].valueCount = @ + 1]]
             ELSE [os |-> o1, ok |-> FALSE, stack |-> st]
    ELSE [os |-> o, ok |-> type \in {"kObjectType", "kArrayType"},
          stack |-> st]

\* mutant: valueCount incremented before the assertion
PrettyPrefix_CountFirst(o, st, type, g) ==
    IF Len(st) # 0
    THEN LET level == Top(st)
             o1 == IF level.inArray
                   THEN WriteIndent(ArraySep(o, level), st, g)
                   ELSE IF level.valueCount % 2 = 0
                        THEN WriteIndent(ObjectSep(o, level), st, g)
                        ELSE ObjectSep(o, level)
         IN  [os |-> o1, ok |-> NameAssert(level, type),
              stack |-> [st EXCEPT ![Len(st)].valueCount = @ + 1]]
    ELSE [os |-> o, ok |-> TRUE, stack |-> st]

\* PrettyPrefix(type): the sink and the stack after it, and whether its
\* assertion held
PrettyPrefix(o, st, type, g) ==
    IF Len(st) # 0
    THEN LET level == Top(st)
             o1 == IF level.inArray
                   THEN WriteIndent(ArraySep(o, level), st, g)
                   ELSE IF level.valueCount % 2 = 0
                        THEN WriteIndent(ObjectSep(o, level), st, g)
                        ELSE ObjectSep(o, level)
         IN  IF NameAssert(level, type)
             THEN [os |-> o1, ok |-> TRUE,
                   stack |-> [st EXCEPT ![Len(st)].valueCount = @ + 1]]
             ELSE [os |-> o1, ok |-> FALSE, stack |-> st]
    ELSE [os |-> o, ok |-> TRUE, stack |-> st]

\* ------------------------------------------------------------------- Init
Init ==
    /\ os = <<>>
    /\ flushCount = 0
    /\ flushed = <<>>
    /\ level_stack_ = <<>>
    /\ indentation_ = <<>>
    /\ indentCharCount_ = 0
    /\ status = "ok"
    /\ op = Op("PrettyWriter", "-", 0)
    /\ doc = <<>>
    /\ nset = 0
    /\ doublePrecision = DefaultDoublePrecision
    /\ usedPrecision = 0
    /\ nprec = 0

CanCall == status = "ok" /\ Len(doc) + nset + nprec < MaxCalls

\* PrettyPrefix(type), then the base encoder's token, in the call o
Emit(o, type, tok) ==
    /\ CanCall
    /\ \E g \in Garbage :
          LET r == PrettyPrefix(os, level_stack_, type, g)
          IN  /\ os' = IF r.ok THEN Append(r.os, tok) ELSE r.os
              /\ level_stack_' = r.stack
              /\ status' = IF r.ok THEN "ok" ELSE "failed"
    /\ op' = o
    /\ doc' = Append(doc, tok)
    /\ UNCHANGED <<flushCount, flushed, indentation_, indentCharCount_, nset,
                   nprec>>

\* a primitive handler other than Double
Primitive(name, arg, type, tok) ==
    /\ Emit(Op(name, arg, 0), type, tok)
    /\ UNCHANGED <<doublePrecision, usedPrecision>>

\* SetDoublePrecision(p)
SetDoublePrecision ==
    /\ CanCall
    /\ \E p \in Precisions :
          /\ doublePrecision' = p
          /\ op' = Op("SetDoublePrecision", "-", p)
    /\ nprec' = nprec + 1
    /\ UNCHANGED <<os, flushCount, flushed, level_stack_, indentation_,
                   indentCharCount_, status, doc, nset, usedPrecision>>

SetIndent ==
    /\ CanCall
    /\ \E u \in Units, n \in 0..MaxCount :
          /\ indentation_' = u
          /\ indentCharCount_' = n
          /\ op' = Op("SetIndent", "-", 0)
    /\ nset' = nset + 1
    /\ UNCHANGED <<os, flushCount, flushed, level_stack_, status, doc>>
    /\ UNCHANGED precvars

Null == Primitive("Null", "-", "kNullType", "null")

Bool ==
    \E b \in BOOLEAN :
        Primitive("Bool", IF b THEN "true" ELSE "false", IF b THEN "kTrueType" ELSE "kFalseType",
                  IF b THEN "true" ELSE "false")

Int    == Primitive("Int", "-", "kNumberType", "num")
Uint   == Primitive("Uint", "-", "kNumberType", "num")
Int64  == Primitive("Int64", "-", "kNumberType", "num")
Uint64 == Primitive("Uint64", "-", "kNumberType", "num")

String == Primitive("String", "-", "kStringType", "str")

\* mutant: the test d<0 of the third branch written d>0, as in the second
NonFiniteText_CopiedTest(d) ==
    IF NeSelf(d) THEN <<"N", "a", "N">>
    ELSE IF Gt0(d) /\ NeSelf(DivSelf(d))
         THEN <<"I", "n", "f", "i", "n", "i", "t", "y">>
    ELSE IF Gt0(d) /\ NeSelf(DivSelf(d))
         THEN <<"-", "I", "n", "f", "i", "n", "i", "t", "y">>
    ELSE <<>>

\* the characters Double() puts for a non-finite d, <<>> for a finite d
NonFiniteText(d) ==
    IF NeSelf(d) THEN <<"N", "a", "N">>
    ELSE IF Gt0(d) /\ NeSelf(DivSelf(d))
         THEN <<"I", "n", "f", "i", "n", "i", "t", "y">>
    ELSE IF Lt0(d) /\ NeSelf(DivSelf(d))
         THEN <<"-", "I", "n", "f", "i", "n", "i", "t", "y">>
    ELSE <<>>

\* Double(d) with the precision p in force: the sink, the stack, the
\* status and the precision Base::WriteDouble has used
DoubleBody(o, d, p) ==
    IF NonFiniteText(d) # <<>>
    THEN /\ CanCall
         /\ os' = os \o NonFiniteText(d)
         /\ op' = o
         /\ doc' = Append(doc, "nonfinite")
         /\ UNCHANGED <<flushCount, flushed, level_stack_, indentation_,
                        indentCharCount_, status, nset, nprec, usedPrecision>>
    ELSE /\ Emit(o, "kNumberType", "num")
         /\ usedPrecision' = IF status' = "ok" THEN p ELSE usedPrecision

Double ==
    \E d \in Doubles :
        /\ DoubleBody(Op("Double", d, 0), d, doublePrecision)
        /\ UNCHANGED doublePrecision

\* mutant: the precision left at the one of the call
Restored_Forgotten(old, p, returned) == p

\* the precision after Double(d, precision): SetDoublePrecision(oldPrecision)
\* runs once Double(d) has returned
Restored(old, p, returned) == IF returned THEN old ELSE p

\* Double(d, precision)
DoubleWithPrecision ==
    \E d \in Doubles, p \in Precisions :
        /\ DoubleBody(Op("Double", d, p), d, p)
        /\ doublePrecision' = Restored(doublePrecision, p, status' = "ok")

\* StartObject / StartArray
Start(name, type, inArray_, tok) ==
    /\ CanCall
    /\ Len(level_stack_) < MaxDepth
    /\ \E g \in Garbage :
          LET r == PrettyPrefix(os, level_stack_, type, g)
          IN  /\ os' = IF r.ok THEN Append(r.os, tok) ELSE r.os
              /\ level_stack_' = IF r.ok THEN Push(r.stack, Level(inArray_))
                                 ELSE r.stack
              /\ status' = IF r.ok THEN "ok" ELSE "failed"
    /\ op' = Op(name, "-", 0)
    /\ doc' = Append(doc, tok)
    /\ UNCHANGED <<flushCount, flushed, indentation_, indentCharCount_, nset>>
    /\ UNCHANGED precvars

\* what EndObject / EndArray write once their assertions have held
EndText(o, st, g) ==
    LET empty == Top(st).valueCount = 0
    IN  IF ~empty THEN WriteIndent(Newline(o), Pop(st), g) ELSE o

\* mutant: the assertion on the kind of the top level left out
EndAssert_NoKind(st, inArray_) ==
    Len(st) >= 1

\* the two assertions of EndObject (inArray_ = FALSE) / EndArray (TRUE)
EndAssert(st, inArray_) ==
    Len(st) >= 1 /\ Top(st).inArray = inArray_

\* mutant: the sink flushed at the end of every container
EndFlush_Always(st) == TRUE

\* if (level_stack_.Empty()) os_.Flush(), st the stack after the Pop
EndFlush(st) == st = <<>>

\* EndObject / EndArray
End(name, inArray_, tok) ==
    /\ CanCall
    /\ op' = Op(name, "-", 0)
    /\ doc' = Append(doc, tok)
    /\ UNCHANGED precvars
    /\ IF EndAssert(level_stack_, inArray_)
       THEN /\ \E g \in Garbage :
                  os' = Append(EndText(os, level_stack_, g), tok)
            /\ level_stack_' = Pop(level_stack_)
            /\ IF EndFlush(Pop(level_stack_))
               THEN flushCount' = flushCount + 1 /\ flushed' = os'
               ELSE UNCHANGED <<flushCount, flushed>>
            /\ UNCHANGED status
       ELSE /\ status' = "failed"
            /\ UNCHANGED <<os, level_stack_, flushCount, flushed>>
    /\ UNCHANGED <<indentation_, indentCharCount_, nset>>

StartObject == Start("StartObject", "kObjectType", FALSE, "{")
EndObject   == End("EndObject", FALSE, "}")
StartArray  == Start("StartArray", "kArrayType", TRUE, "[")
EndArray    == End("EndArray", TRUE, "]")

Next ==
    \/ SetIndent
    \/ SetDoublePrecision
    \/ Null
    \/ Bool
    \/ Int
    \/ Uint
    \/ Int64
    \/ Uint64
    \/ Double
    \/ DoubleWithPrecision
    \/ String
    \/ StartObject
    \/ EndObject
    \/ StartArray
    \/ EndArray

Spec == Init /\ [][Next]_vars

\* ===================================================== the document tree
\* A node of the document tree: a leaf holds the token of a primitive, an
\* "arr" or "obj" node holds its children in order (an object's children
\* alternate key, value).
Leaf(tok) == [kind |-> "leaf", tok |-> tok, kids |-> <<>>]
Node(kind) == [kind |-> kind, tok |-> "-", kids |-> <<>>]
AddKid(stk, n) == [stk EXCEPT ![Len(stk)].kids = Append(@, n)]

\* The stack of unfinished nodes after the events ev, starting from stk;
\* <<>> when an end event has no open container of its kind.
RECURSIVE Build(_, _)
Build(ev, stk) ==
    IF ev = <<>> \/ stk = <<>> THEN stk
    ELSE LET e == Head(ev)
         IN  IF e = "{" THEN Build(Tail(ev), Append(stk, Node("obj")))
             ELSE IF e = "[" THEN Build(Tail(ev), Append(stk, Node("arr")))
             ELSE IF e \in {"}", "]"}
                  THEN IF /\ Len(stk) >= 2
                          /\ Top(stk).kind = (IF e = "}" THEN "obj" ELSE "arr")
                       THEN Build(Tail(ev), AddKid(Pop(stk), Top(stk)))
                       ELSE <<>>
             ELSE Build(Tail(ev), AddKid(stk, Leaf(e)))

Built(ev) == Build(ev, <<Node("root")>>)

RECURSIVE NodeOk(_)
NodeOk(n) ==
    /\ n.kind = "leaf" => n.tok # "nonfinite"
    /\ n.kind = "obj" =>
          \A i \in 1..Len(n.kids) :
              i % 2 = 1 => n.kids[i] = Leaf("str")
    /\ \A i \in 1..Len(n.kids) : NodeOk(n.kids[i])

\* The calls ev are a well-formed sequence or the beginning of one: start
\* and end calls correctly nested, at most one root value, every
\* even-position child of an object a string, every double finite.  The
\* sequence is complete when Built(ev) is the root frame alone.
WellFormed(ev) ==
    LET stk == Built(ev)
    IN  /\ stk # <<>>
        /\ Len(stk[1].kids) + (IF Len(stk) > 1 THEN 1 ELSE 0) <= 1
        /\ \A i \in 1..Len(stk) :
              /\ NodeOk(stk[i])
              /\ (i < Len(stk) /\ stk[i].kind = "obj")
                    => Len(stk[i].kids) % 2 = 1

Complete(ev) == Len(Built(ev)) = 1 /\ Len(Built(ev)[1].kids) = 1

\* the separator of the canonical serialization before child i of a
\* container: "," between elements and between pairs, ":" between a key
\* and its value
SepBefore(kind, i) ==
    IF kind = "root" \/ i = 1 THEN <<>>
    ELSE IF kind = "obj" /\ i % 2 = 0 THEN <<":">>
    ELSE <<",">>

\* the canonical serialization of a tree
RECURSIVE Ser(_)
RECURSIVE SerKids(_, _, _)
Ser(n) ==
    IF n.kind = "leaf" THEN <<n.tok>>
    ELSE IF n.kind = "arr"
         THEN <<"[">> \o SerKids(n.kids, 1, "arr") \o <<"]">>
         ELSE <<"{">> \o SerKids(n.kids, 1, "obj") \o <<"}">>
SerKids(kids, i, kind) ==
    IF i > Len(kids) THEN <<>>
    ELSE SepBefore(kind, i) \o Ser(kids[i]) \o SerKids(kids, i + 1, kind)

\* the canonical serialization of the document as far as it has been
\* given: the frames i.. of the stack of unfinished nodes.  For a complete
\* sequence this is Ser of the one root value.
RECURSIVE SerOpen(_, _)
SerOpen(stk, i) ==
    LET f == stk[i]
    IN  (IF f.kind = "root" THEN <<>>
         ELSE IF f.kind = "arr" THEN <<"[">> ELSE <<"{">>)
        \o SerKids(f.kids, 1, f.kind)
        \o (IF i < Len(stk)
            THEN SepBefore(f.kind, Len(f.kids) + 1) \o SerOpen(stk, i + 1)
            ELSE <<>>)

\* what the separator policy inserts besides commas and colons
Whitespace == {NL, SP, TAB, NUL} \cup Garbage
NotWhitespace(c) == c \notin Whitespace
Strip(o) == SelectSeq(o, NotWhitespace)

\* C1: for a well-formed call sequence and any indent setting, the sink
\* with the inserted newlines, indentation and colon-space removed is the
\* canonical serialization of the document tree built by the calls: one
\* comma between consecutive elements and pairs, one colon between a key and
\* its value, none after an opening or before a closing token, every opening
\* token closed by the token of its kind.  It holds after every call of the
\* sequence, of the part of the document given so far.
C1_CanonicalSerialization ==
    (status = "ok" /\ WellFormed(doc)) => Strip(os) = SerOpen(Built(doc), 1)

\* a complete one-element array written with indentation enabled
C1_Witness ==
    /\ status = "ok"
    /\ WellFormed(doc)
    /\ Complete(doc)
    /\ indentCharCount_ > 0
    /\ Len(doc) = 3
    /\ doc[1] = "["
    /\ Strip(os) = <<"[", doc[2], "]">>
    /\ Len(os) > 4

\* ====================================================== one call, observed
\* what the step has appended to the sink
Written == SubSeq(os', Len(os) + 1, Len(os'))

PrimitiveNames == {"Null", "Bool", "Int", "Uint", "Int64", "Uint64",
                   "Double", "String"}
StartNames == {"StartObject", "StartArray"}
EndNames == {"EndObject", "EndArray"}
NonFinite == {"nan", "pinf", "ninf"}

\* the literal the claims expect for a non-finite double
Literal(d) ==
    IF d = "nan" THEN <<"N", "a", "N">>
    ELSE IF d = "pinf" THEN <<"I", "n", "f", "i", "n", "i", "t", "y">>
    ELSE <<"-", "I", "n", "f", "i", "n", "i", "t", "y">>

\* the token of the value itself, written by the call o
OwnText(o) ==
    IF o.name = "Null" THEN <<"null">>
    ELSE IF o.name = "Bool" THEN <<o.arg>>
    ELSE IF o.name = "String" THEN <<"str">>
    ELSE IF o.name = "Double" /\ o.arg \in NonFinite THEN Literal(o.arg)
    ELSE IF o.name \in PrimitiveNames THEN <<"num">>
    ELSE IF o.name = "StartObject" THEN <<"{">>
    ELSE IF o.name = "StartArray" THEN <<"[">>
    ELSE IF o.name = "EndObject" THEN <<"}">>
    ELSE IF o.name = "EndArray" THEN <<"]">>
    ELSE <<>>

\* the step is an emission call that goes through the separator policy
Prefixed ==
    /\ op'.name \in PrimitiveNames \cup StartNames
    /\ ~(op'.name = "Double" /\ op'.arg \in NonFinite)

AtRoot == level_stack_ = <<>>
InArray == ~AtRoot /\ Top(level_stack_).inArray
KeyPos == ~AtRoot /\ ~Top(level_stack_).inArray
              /\ Top(level_stack_).valueCount % 2 = 0
ValuePos == ~AtRoot /\ ~Top(level_stack_).inArray
              /\ Top(level_stack_).valueCount % 2 = 1

\* the value token the step wrote last, nothing when the call failed
Tail_ == IF status' = "ok" THEN OwnText(op') ELSE <<>>
\* what the separator policy contributed in the step
Policy == SubSeq(Written, 1, Len(Written) - Len(Tail_))
EndsWithTail ==
    /\ Len(Written) >= Len(Tail_)
    /\ SubSeq(Written, Len(Written) - Len(Tail_) + 1, Len(Written)) = Tail_

\* C2: endObject fails when the stack is empty or the top frame is an
\* array, endArray fails when the stack is empty or the top frame is an
\* object; otherwise the end call succeeds and pops exactly the top frame.
C2_EndProtocol ==
    [][op'.name \in EndNames =>
          LET violation == AtRoot \/ Top(level_stack_).inArray
                                       # (op'.name = "EndArray")
          IN  /\ violation => status' = "failed"
              /\ ~violation => /\ status' = "ok"
                               /\ level_stack_' = Pop(level_stack_)]_vars

\* endArray has failed on an open object
C2_Witness ==
    /\ op.name = "EndArray"
    /\ status = "failed"
    /\ level_stack_ # <<>>
    /\ ~Top(level_stack_).inArray

\* C3: with an object on top and the next child in key position, every
\* emission call of a non-textual kind fails with a protocol violation.
C3_NonTextualKeyFails ==
    [][(KeyPos /\ op'.name \in (PrimitiveNames \cup StartNames) \ {"String"})
          => status' = "failed"]_vars

\* C4: a container closed by the call right after its start call has its
\* closing token directly after its opening token.
C4_EmptyContainerAdjacent ==
    [][(/\ status = "ok"
        /\ \/ op.name = "StartObject" /\ op'.name = "EndObject"
           \/ op.name = "StartArray" /\ op'.name = "EndArray")
          => /\ status' = "ok"
             /\ os[Len(os)] = OwnText(op)[1]
             /\ os' = os \o OwnText(op')]_vars

\* an empty array closed inside another container, indentation enabled
C4_Witness ==
    /\ op.name = "EndArray"
    /\ status = "ok"
    /\ indentCharCount_ > 0
    /\ level_stack_ # <<>>
    /\ Top(level_stack_).valueCount = 1
    /\ Len(os) >= 3
    /\ os[Len(os) - 1] = "["
    /\ os[Len(os)] = "]"

\* C5: with indentCharCount_ = 0 the separator policy writes no newline and
\* no indentation: every character it contributes is a comma or a colon.
C5_CompactNoWhitespace ==
    [][(indentCharCount_ = 0 /\ op'.name # "SetIndent")
          => /\ EndsWithTail
             /\ \A i \in 1..Len(Policy) : Policy[i] \in {",", ":"}]_vars

\* compact mode: a value was written after its key into a nested object
C5_Witness ==
    /\ indentCharCount_ = 0
    /\ status = "ok"
    /\ op.name \in PrimitiveNames
    /\ Len(level_stack_) = 2
    /\ ~Top(level_stack_).inArray
    /\ Top(level_stack_).valueCount = 2
    /\ os[Len(os) - 1] = ":"

\* C6 as claimed: in compact mode (indentCharCount_ = 0) the colon between
\* an object key and its value is still followed by a single space.
C6_CompactColonSpace ==
    [][(indentCharCount_ = 0 /\ ValuePos /\ Prefixed)
          => Written = <<":", SP>> \o Tail_]_vars

\* C6 amended: in compact mode the colon between an object key and its
\* value is followed directly by the value, without a space.
C6_CompactColonNoSpace ==
    [][(indentCharCount_ = 0 /\ ValuePos /\ Prefixed)
          => Written = <<":">> \o Tail_]_vars

\* compact mode: a number was written as the value of a key
C6_Witness ==
    /\ indentCharCount_ = 0
    /\ status = "ok"
    /\ op.name = "Int"
    /\ level_stack_ # <<>>
    /\ ~Top(level_stack_).inArray
    /\ Top(level_stack_).valueCount = 2
    /\ SubSeq(os, Len(os) - 2, Len(os)) = <<"str", ":", "num">>

\* C7: Double called with NaN, +Infinity or -Infinity writes exactly the
\* literal NaN, Infinity or -Infinity and nothing else, and leaves the stack
\* and every valueCount unchanged, in every state and for every indent
\* setting.
C7_NonFiniteVerbatim ==
    [][(op'.name = "Double" /\ op'.arg \in NonFinite)
          => /\ os' = os \o Literal(op'.arg)
             /\ level_stack_' = level_stack_
             /\ status' = status]_vars

\* -Infinity written as the first thing in an array, indentation enabled
C7_Witness ==
    /\ op.name = "Double"
    /\ op.arg = "ninf"
    /\ indentCharCount_ > 0
    /\ level_stack_ # <<>>
    /\ Top(level_stack_).inArray
    /\ Top(level_stack_).valueCount = 0
    /\ os[Len(os) - 9] = "["

\* ---------------------------------------------------- indentation writes
\* the step calls WriteIndent from PrettyPrefix: an array element or an
\* object key
PrefixIndent == Prefixed /\ (InArray \/ KeyPos)
\* the step calls WriteIndent from EndObject / EndArray
EndIndent ==
    /\ op'.name \in EndNames
    /\ status' = "ok"
    /\ Top(level_stack_).valueCount > 0
\* the number of levels WriteIndent sees in the step
IndentDepth ==
    IF op'.name \in EndNames THEN Len(level_stack_) - 1 ELSE Len(level_stack_)
\* what the step writes before the indentation
IndentLead ==
    (IF op'.name \notin EndNames /\ Top(level_stack_).valueCount > 0
     THEN <<",">> ELSE <<>>)
    \o (IF indentCharCount_ > 0 THEN <<NL>> ELSE <<>>)
\* the step wrote IndentLead, then ind, then the token of the call
WroteIndent(ind) == Written = IndentLead \o ind \o Tail_
\* the indentation the step wrote, given the shape above
IndentText ==
    SubSeq(Written, Len(IndentLead) + 1, Len(Written) - Len(Tail_))

\* C8 as claimed: each nesting level of an indentation write is the whole
\* unit string written indentCharCount times (stated for the counts that
\* stay inside the unit string).
C8_WholeUnitRepeated ==
    [][(/\ nset' > 0
        /\ indentCharCount_ <= Len(indentation_)
        /\ (PrefixIndent \/ EndIndent))
          => WroteIndent(Repeat(Repeat(indentation_, indentCharCount_),
                                IndentDepth))]_vars

\* C8 amended: each nesting level of an indentation write is
\* indentCharCount characters wide and consists of the first
\* indentCharCount characters of the unit string (character i of a level
\* is unit[i] wherever i lies inside the unit string).
C8_FirstCountChars ==
    [][(nset' > 0 /\ (PrefixIndent \/ EndIndent))
          => /\ WroteIndent(IndentText)
             /\ Len(IndentText) = IndentDepth * indentCharCount_
             /\ \A j \in 0..(IndentDepth - 1) :
                   \A i \in 1..indentCharCount_ :
                       i <= Len(indentation_)
                           => IndentText[j * indentCharCount_ + i]
                                  = indentation_[i]]_vars

\* SetIndent("\t ", 1), then a value written two levels deep: one tab per
\* level
C8_Witness ==
    /\ nset > 0
    /\ indentation_ = <<TAB, SP>>
    /\ indentCharCount_ = 1
    /\ status = "ok"
    /\ op.name = "Null"
    /\ Len(level_stack_) = 2
    /\ SubSeq(os, Len(os) - 3, Len(os)) = <<NL, TAB, TAB, "null">>

\* C9: with indentation enabled, the indentation before an array element
\* or an object key is (number of open containers at the call) times
\* indentCharCount_ characters, recomputed at every write; a value inside n
\* nested single-child arrays is indented by n levels.
C9_IndentDepth ==
    [][(indentCharCount_ > 0 /\ PrefixIndent)
          => /\ WroteIndent(IndentText)
             /\ Len(IndentText) = Len(level_stack_) * indentCharCount_]_vars

\* a value inside two nested single-child arrays, two characters per level
C9_Witness ==
    /\ indentCharCount_ = 2
    /\ status = "ok"
    /\ op.name = "String"
    /\ Len(level_stack_) = 2
    /\ \A i \in 1..2 : level_stack_[i] = [inArray |-> TRUE, valueCount |-> 1]
    /\ Len(os) >= 6
    /\ os[Len(os) - 5] = NL
    /\ \A i \in 1..4 : os[Len(os) - i] \in Whitespace \ {NL}

\* C10: a writer on which SetIndent has never been called writes a newline
\* and 4 spaces per open container before each array element and each
\* object key.
C10_DefaultFourSpaces ==
    [][(nset' = 0 /\ PrefixIndent)
          => Written = (IF Top(level_stack_).valueCount > 0
                        THEN <<",">> ELSE <<>>)
                       \o <<NL>>
                       \o Repeat(<<SP, SP, SP, SP>>, Len(level_stack_))
                       \o Tail_]_vars

\* C11: a call flushes the sink if and only if it is an EndObject or
\* EndArray that leaves the stack empty, and it flushes after the closing
\* token has been written; no primitive (also at root level), no start call
\* and no end call of an inner container flushes.
C11_FlushAtEndOfDocument ==
    [][/\ flushCount' # flushCount
          <=> (op'.name \in EndNames /\ status' = "ok"
                  /\ level_stack_' = <<>>)
       /\ flushCount' # flushCount
          => (flushCount' = flushCount + 1 /\ flushed' = os'
                 /\ os'[Len(os')] = OwnText(op')[1])
       /\ flushCount' = flushCount => flushed' = flushed]_vars

\* a root array holding an empty array has been closed: one flush, at the
\* outer end
C11_Witness ==
    /\ op.name = "EndArray"
    /\ status = "ok"
    /\ level_stack_ = <<>>
    /\ doc = <<"[", "[", "]", "]">>
    /\ flushCount = 1
    /\ flushed = os

\* C12: for every double d, every precision p and every configured
\* precision q, when Double(d, p) has returned the configured precision is
\* again q, and the emission of d was performed with precision p.
C12_PrecisionRestored ==
    [][(op'.name = "Double" /\ op'.prec # 0 /\ status' = "ok")
          => /\ doublePrecision' = doublePrecision
             /\ op'.arg \notin NonFinite => usedPrecision' = op'.prec]_vars

\* a finite double written with precision 3 while 6 is configured
C12_Witness ==
    /\ op = Op("Double", "pos", 3)
    /\ status = "ok"
    /\ doublePrecision = 6
    /\ usedPrecision = 3
    /\ os[Len(os)] = "num"

\* the indentation of n levels is n * indentCharCount_ characters, none of
\* them a comma, a colon or a newline
IsIndentation(ind, n) ==
    /\ Len(ind) = n * indentCharCount_
    /\ \A i \in 1..Len(ind) : ind[i] \in Whitespace \ {NL}

OpenToken(level) == IF level.inArray THEN "[" ELSE "{"

\* C16: on EndObject/EndArray the frame is popped before anything is
\* written; if the popped frame's valueCount is 0 the closing token is
\* written directly after the container's opening token, otherwise a
\* newline (only if indentation is enabled) and the indentation of the
\* stack size after the pop are written before the closing token.
C16_EndText ==
    [][(op'.name \in EndNames /\ status' = "ok")
          => /\ level_stack_' = Pop(level_stack_)
             /\ IF Top(level_stack_).valueCount = 0
                THEN /\ os[Len(os)] = OpenToken(Top(level_stack_))
                     /\ os' = os \o OwnText(op')
                ELSE /\ WroteIndent(IndentText)
                     /\ IsIndentation(IndentText, Len(level_stack_'))]_vars

\* every frame's valueCount is the number of direct children given to its
\* container so far, a container that is still open included
CountsMatch ==
    (status = "ok" /\ Built(doc) # <<>>) =>
        /\ Len(Built(doc)) = Len(level_stack_) + 1
        /\ \A i \in 1..Len(level_stack_) :
              level_stack_[i].valueCount
                  = Len(Built(doc)[i + 1].kids)
                    + (IF i < Len(level_stack_) THEN 1 ELSE 0)

\* C17: each frame's valueCount equals the number of direct-child values
\* emitted into its container since the frame was pushed with valueCount 0;
\* an emission changes only the top frame's counter, by exactly one, and no
\* counter decreases while its frame is on the stack.
C17_ValueCount ==
    [][/\ CountsMatch'
       /\ (/\ op'.name \in PrimitiveNames \cup StartNames
           /\ status' = "ok"
           /\ ~AtRoot)
          => /\ \A i \in 1..(Len(level_stack_) - 1) :
                   level_stack_'[i] = level_stack_[i]
             /\ level_stack_'[Len(level_stack_)].valueCount
                   = Top(level_stack_).valueCount + 1
       /\ \A i \in 1..Len(level_stack_) :
             i <= Len(level_stack_')
                => level_stack_'[i].valueCount
                      >= level_stack_[i].valueCount]_vars

\* C18: with the stack empty, every emission call writes only the value's
\* own token: nothing precedes it, no counter is changed and the call does
\* not fail, whatever the kind of the value and however many root-level
\* values were emitted before it.
C18_RootLevel ==
    [][(AtRoot /\ op'.name \in PrimitiveNames \cup StartNames)
          => /\ status' = "ok"
             /\ os' = os \o OwnText(op')
             /\ IF op'.name \in StartNames
                THEN level_stack_' = <<Level(op'.name = "StartArray")>>
                ELSE level_stack_' = <<>>]_vars

\* a null written at root level after two other root-level values
C18_Witness ==
    /\ op.name = "Null"
    /\ status = "ok"
    /\ level_stack_ = <<>>
    /\ Len(doc) = 3
    /\ os = <<doc[1], doc[2], "null">>

\* C19 as claimed: every call that fails with a protocol violation fails
\* before it has written anything to the sink and before it has changed
\* the stack or a valueCount.
C19_FailsBeforeAnyWrite ==
    [][(status' = "failed")
          => (os' = os /\ level_stack_' = level_stack_)]_vars

\* C19 amended: an end call that fails has written nothing and changed
\* nothing; a non-textual key fails after the separator of the key (the
\* comma if valueCount > 0, the newline if indentation is enabled, the
\* indentation) has been written, but before the value's token is written
\* and before the stack or a valueCount has changed.
C19_FailsBeforeValue ==
    [][(status' = "failed")
          => /\ level_stack_' = level_stack_
             /\ flushCount' = flushCount
             /\ IF op'.name \in EndNames
                THEN os' = os
                ELSE /\ KeyPos
                     /\ WroteIndent(IndentText)
                     /\ IsIndentation(IndentText, Len(level_stack_))]_vars

\* a number given as the first key of an object, indentation enabled: the
\* newline and the indentation are in the sink, the number is not
C19_Witness ==
    /\ status = "failed"
    /\ op.name = "Uint"
    /\ indentCharCount_ = 1
    /\ indentation_ = <<TAB, SP>>
    /\ level_stack_ = <<[inArray |-> FALSE, valueCount |-> 0]>>
    /\ os = <<"{", NL, TAB>>

\* C20: every indentation write reads only positions inside the configured
\* indentation string: no character it writes is the terminator of the
\* string or a byte from behind it.
C20_ReadsInsideString ==
    [][(PrefixIndent \/ EndIndent)
          => /\ WroteIndent(IndentText)
             /\ \A i \in 1..Len(IndentText) :
                   IndentText[i] \notin ({NUL} \cup Garbage)]_vars
====
